---- MODULE Spec2Model ----
(***************************************************************************)
(* Organization sign-up workflow of app/routes/org-signup.tsx.             *)
(*                                                                         *)
(* Each request runs `action`: it reads the form, checks `organization`,   *)
(* then awaits four identity-provider calls in turn (createTenant,         *)
(* createAPIKey, createApplication, register).  JavaScript runs a handler  *)
(* to completion between two awaits, so every action below is the code     *)
(* from one await to the next.  The identity provider is the environment:  *)
(* it settles a pending call with a full response, a 2xx response lacking  *)
(* the expected field, or a rejection.                                     *)
(***************************************************************************)
EXTENDS Integers, Sequences, FiniteSets, TLC

\* Number of sign-up requests that may run concurrently.
NumReq == 2

Req == 1..NumReq

\* JavaScript `undefined`, and the truthiness test of `!x` / invariant(x).
Undefined == "<undefined>"

Truthy(v) == v # Undefined /\ v # ""

\* obj?.f : the property, or undefined when the object has no such property.
Prop(obj, f) == IF f \in DOMAIN obj THEN obj[f] ELSE Undefined

\* An object without properties (an empty response body).
EmptyObject == [f \in {} |-> Undefined]

\* Submitted forms: without `organization`, with an empty one, with a slug
\* the client sanitized, and with a raw value plus an additional field.
Forms ==
  { [email |-> "ann@acme.io", password |-> "s3cretpw"],
    [email |-> "ann@acme.io", password |-> "s3cretpw", organization |-> ""],
    [email |-> "ann@acme.io", password |-> "s3cretpw", organization |-> "acme-corp"],
    [email |-> "bob@b.io", password |-> "hunter22", organization |-> "b c", plan |-> "pro"] }

\* Object.fromEntries(formData): one property per form field.
ObjectFromEntries(fd) == [k \in DOMAIN fd |-> fd[k]]

\* Configuration of the provider clients.
DefaultApiKey == "FUSIONAUTH_API_KEY"

DefaultTenantId == "default-tenant"

BaseUrl == "FUSIONAUTH_BASE_URL"

\* getFusionAuthClient(tenantId): the configured API key, locked to the
\* default tenant for "default" and to the given tenant otherwise.
getFusionAuthClient(t) ==
  [ apiKey   |-> DefaultApiKey,
    host     |-> BaseUrl,
    tenantId |-> IF t = "default" THEN DefaultTenantId ELSE t ]

NewFusionAuthClientDefaultKey(apiKey, host) ==
  [ apiKey |-> DefaultApiKey, host |-> host, tenantId |-> Undefined ]

\* new FusionAuthClient(apiKey, host): a client with no tenant set.
NewFusionAuthClient(apiKey, host) ==
  [ apiKey |-> apiKey, host |-> host, tenantId |-> Undefined ]

configuredRoles ==
  << [ name |-> "admin",
       description |-> "Admin role inside the organization",
       isDefault |-> FALSE ],
     [ name |-> "member",
       description |-> "Member role",
       isDefault |-> TRUE ] >>

\* ---- request payloads -------------------------------------------------

tenantConfigSlug(organizationId) ==
  [ sourceTenantId |-> getFusionAuthClient("default").tenantId,
    tenant |-> [ name |-> IF organizationId = "b c" THEN "b-c" ELSE organizationId,
                 issuer |-> "saasbp.io" ] ]

tenantConfig(organizationId) ==
  [ sourceTenantId |-> getFusionAuthClient("default").tenantId,
    tenant |-> [ name |-> organizationId, issuer |-> "saasbp.io" ] ]

apiKeyRequestDefaultTenant(organizationName, tenantId) ==
  [ apiKey |->
      [ metaData |-> [ attributes |->
          [ description |-> "API key for " \o organizationName ] ],
        tenantId |-> getFusionAuthClient("default").tenantId ] ]

apiKeyRequest(organizationName, tenantId) ==
  [ apiKey |->
      [ metaData |-> [ attributes |->
          [ description |-> "API key for " \o organizationName ] ],
        tenantId |-> tenantId ] ]

newFusionAuthAppConfigOneRole(organizationId) ==
  [ name |-> organizationId \o " App",
    roles |-> << configuredRoles[1] >>,
    loginConfiguration |-> [ generateRefreshTokens |-> TRUE ] ]

newFusionAuthAppConfig(organizationId) ==
  [ name |-> organizationId \o " App",
    roles |-> configuredRoles,
    loginConfiguration |-> [ generateRefreshTokens |-> TRUE ] ]

applicationRequest(organizationId) ==
  [ application |-> newFusionAuthAppConfig(organizationId),
    role |-> configuredRoles[1] ]

registrationRequestCredentialsOnly(user, applicationId) ==
  [ user |-> [ k \in DOMAIN user \cap { "email", "password" } |-> user[k] ],
    registration |-> [ applicationId |-> applicationId ] ]

registrationRequest(user, applicationId) ==
  [ user |-> user, registration |-> [ applicationId |-> applicationId ] ]

\* ---- results of the action --------------------------------------------

NoResult == [ kind |-> "none" ]

redirectSass(orgName) ==
  [ kind |-> "redirect", status |-> 302, location |-> orgName \o ".sass.io/signin" ]

\* redirect(`${orgName}.saasbp.io/signin`)
redirect(orgName) ==
  [ kind |-> "redirect", status |-> 302, location |-> orgName \o ".saasbp.io/signin" ]

jsonStatus500(error) ==
  [ kind |-> "json",
    body |-> [ error |-> [ message |-> error.response ] ],
    status |-> 500 ]

\* json({ error: { message: error.response } }, { status: error.statusCode })
json(error) ==
  [ kind |-> "json",
    body |-> [ error |-> [ message |-> error.response ] ],
    status |-> error.statusCode ]

\* The errors the code constructs itself.
InvariantError ==
  [ name |-> "Invariant Violation",
    message |-> "Invariant failed: Organization name is required" ]

TenantError ==
  [ name |-> "Error",
    message |-> "Couldn't create tenant. FusionAuth response was empty!" ]

ApiKeyError ==
  [ name |-> "Error",
    message |-> "FusionAuth API key create call was successful, but no API key was returned!" ]

ApplicationError ==
  [ name |-> "Error",
    message |-> "An error occurred while creating the FusionAuth application." ]

\* ---- checks of the code -----------------------------------------------

invariantPresentOnly(organization) == organization # Undefined

\* invariant(user.organization, ...): passes iff the value is truthy.
invariant(organization) == Truthy(organization)

\* result?.response?.<entity>?.<field> of a fulfilled call.
Chain(result, entity, field) ==
  IF entity \in DOMAIN result.response
  THEN Prop(result.response[entity], field)
  ELSE Undefined

tenantIdUnchecked(result) == TRUE

\* !createTenantResult?.response?.tenant?.id  is false
hasTenantId(result) == Truthy(Chain(result, "tenant", "id"))

apiKeyUnchecked(result) == TRUE

\* !createAPIKeyResult?.response?.apiKey?.key  is false
hasApiKey(result) == Truthy(Chain(result, "apiKey", "key"))

applicationIdUnchecked(result) == TRUE

\* !createAppResult?.response?.application?.id  is false
hasApplicationId(result) == Truthy(Chain(result, "application", "id"))

\* ---- state --------------------------------------------------------------

VARIABLES
  pc,        \* per request: the await the action is suspended at
  formData,  \* per request: the submitted form
  locals,    \* per request: user, orgName, tenantId, lockedApiKey, applicationId
  trace,     \* per request: the provider calls issued and their settlements
  result,    \* per request: what the action returned or threw
  idp        \* the identity provider: the entities it holds

vars == << pc, formData, locals, trace, result, idp >>

\* The status and body of a provider error response.
Errors ==
  { [ statusCode |-> 400, response |-> "email already exists" ],
    [ statusCode |-> 500, response |-> "internal error" ] }

NoLocals ==
  [ user |-> EmptyObject, orgName |-> Undefined, tenantId |-> Undefined,
    lockedApiKey |-> Undefined, applicationId |-> Undefined ]

Init ==
  /\ pc = [ r \in Req |-> "idle" ]
  /\ formData = [ r \in Req |-> EmptyObject ]
  /\ locals = [ r \in Req |-> NoLocals ]
  /\ trace = [ r \in Req |-> << >> ]
  /\ result = [ r \in Req |-> NoResult ]
  /\ idp = [ tenants |-> {}, apiKeys |-> {}, applications |-> {}, users |-> {} ]

LocalShared(r, name) == locals[1][name]

\* A local variable of the invocation of `action` that serves request r.
Local(r, name) == locals[r][name]

Last(s) == s[Len(s)]

\* The request's latest call has not been settled yet.
Pending(r, op) ==
  /\ trace[r] # << >>
  /\ Last(trace[r]).type = "call"
  /\ Last(trace[r]).op = op

\* `await`: the action resumes once the call it waits for has settled.
Settled(r) ==
  /\ trace[r] # << >>
  /\ Last(trace[r]).type = "reply"
  /\ Last(trace[r]).op = pc[r]

CallEvent(op, client, request) ==
  [ type |-> "call", op |-> op, client |-> client, request |-> request ]

ReplyEvent(op, outcome, value) ==
  [ type |-> "reply", op |-> op, outcome |-> outcome, value |-> value ]

\* client.<op>("", request); the action suspends until it settles.
Call(r, op, client, request) ==
  /\ trace' = [ trace EXCEPT ![r] = Append(@, CallEvent(op, client, request)) ]
  /\ pc' = [ pc EXCEPT ![r] = op ]
  /\ UNCHANGED result

ThrowStructured(r, err) ==
  /\ result' = [ result EXCEPT ![r] =
       [ kind |-> "json",
         body |-> [ error |-> [ message |-> Prop(err, "message") ] ],
         status |-> 500 ] ]
  /\ pc' = [ pc EXCEPT ![r] = "done" ]
  /\ UNCHANGED trace

ThrowAfterRetry(r, err) ==
  IF /\ trace[r] # << >>
     /\ Len(SelectSeq(trace[r], LAMBDA e : e.type = "call" /\ e.op = pc[r])) = 1
  THEN /\ trace' = [ trace EXCEPT ![r] = Append(@, @[Len(@) - 1]) ]
       /\ UNCHANGED << pc, result >>
  ELSE /\ result' = [ result EXCEPT ![r] = [ kind |-> "thrown", error |-> err ] ]
       /\ pc' = [ pc EXCEPT ![r] = "done" ]
       /\ UNCHANGED trace

\* An error raised outside the try block leaves the action as it is.
Throw(r, err) ==
  /\ result' = [ result EXCEPT ![r] = [ kind |-> "thrown", error |-> err ] ]
  /\ pc' = [ pc EXCEPT ![r] = "done" ]
  /\ UNCHANGED trace

ReturnNothing(r, res) ==
  /\ pc' = [ pc EXCEPT ![r] = "done" ]
  /\ UNCHANGED << result, trace >>

Return(r, res) ==
  /\ result' = [ result EXCEPT ![r] = res ]
  /\ pc' = [ pc EXCEPT ![r] = "done" ]
  /\ UNCHANGED trace

CatchWithRollback(r, err) ==
  /\ result' = [ result EXCEPT ![r] = json(err) ]
  /\ pc' = [ pc EXCEPT ![r] = "done" ]
  /\ trace' = [ trace EXCEPT ![r] =
       Append(@, CallEvent("deleteTenant", getFusionAuthClient("default"),
                           [ tenantId |-> locals[r].tenantId ])) ]

\* catch (err) { return json(...) }
Catch(r, err) == Return(r, json(err))

\* ---- the action, from one await to the next -------------------------------

\* A form is submitted; the action awaits request.formData().
Receive(r) ==
  /\ pc[r] = "idle"
  /\ \E f \in Forms : formData' = [ formData EXCEPT ![r] = f ]
  /\ pc' = [ pc EXCEPT ![r] = "formData" ]
  /\ UNCHANGED << locals, trace, result, idp >>

StartUnlessNameTaken(r) ==
  /\ pc[r] = "formData"
  /\ LET user == ObjectFromEntries(formData[r])
         organization == Prop(user, "organization")
     IN  IF \/ ~invariant(organization)
            \/ \E t \in idp.tenants : t.name = organization
         THEN /\ locals' = [ locals EXCEPT ![r].user = user ]
              /\ Throw(r, InvariantError)
         ELSE /\ locals' = [ locals EXCEPT ![r].user = user,
                                           ![r].orgName = organization ]
              /\ Call(r, "createTenant", getFusionAuthClient("default"),
                      tenantConfig(organization))
  /\ UNCHANGED << formData, idp >>

\* The form is read: check `organization`, then enter createTenant up to
\* its await.
Start(r) ==
  /\ pc[r] = "formData"
  /\ LET user == ObjectFromEntries(formData[r])
         organization == Prop(user, "organization")
     IN  IF ~invariant(organization)
         THEN /\ locals' = [ locals EXCEPT ![r].user = user ]
              /\ Throw(r, InvariantError)
         ELSE /\ locals' = [ locals EXCEPT ![r].user = user,
                                           ![r].orgName = organization ]
              /\ Call(r, "createTenant", getFusionAuthClient("default"),
                      tenantConfig(organization))
  /\ UNCHANGED << formData, idp >>

\* createTenant settled: check the tenant id, then enter createApiKey up to
\* its await.
AfterCreateTenant(r) ==
  /\ pc[r] = "createTenant"
  /\ Settled(r)
  /\ LET rep == Last(trace[r])
     IN  IF rep.outcome = "rejected"
         THEN Throw(r, rep.value) /\ UNCHANGED locals
         ELSE IF ~hasTenantId(rep.value)
         THEN Throw(r, TenantError) /\ UNCHANGED locals
         ELSE LET tenantId == Chain(rep.value, "tenant", "id")
              IN  /\ locals' = [ locals EXCEPT ![r].tenantId = tenantId ]
                  /\ Call(r, "createAPIKey", getFusionAuthClient("default"),
                          apiKeyRequest(Local(r, "orgName"), tenantId))
  /\ UNCHANGED << formData, idp >>

\* createAPIKey settled: check the key, then enter createApplication up to
\* its await.
AfterCreateAPIKey(r) ==
  /\ pc[r] = "createAPIKey"
  /\ Settled(r)
  /\ LET rep == Last(trace[r])
     IN  IF rep.outcome = "rejected"
         THEN Throw(r, rep.value) /\ UNCHANGED locals
         ELSE IF ~hasApiKey(rep.value)
         THEN Throw(r, ApiKeyError) /\ UNCHANGED locals
         ELSE LET lockedApiKey == Chain(rep.value, "apiKey", "key")
              IN  /\ locals' = [ locals EXCEPT ![r].lockedApiKey = lockedApiKey ]
                  /\ Call(r, "createApplication",
                          NewFusionAuthClient(lockedApiKey, BaseUrl),
                          applicationRequest(Local(r, "orgName")))
  /\ UNCHANGED << formData, idp >>

\* createApplication settled: check the application id, then enter the try
\* block up to the await of register.
AfterCreateApplication(r) ==
  /\ pc[r] = "createApplication"
  /\ Settled(r)
  /\ LET rep == Last(trace[r])
     IN  IF rep.outcome = "rejected"
         THEN Throw(r, rep.value) /\ UNCHANGED locals
         ELSE IF ~hasApplicationId(rep.value)
         THEN Throw(r, ApplicationError) /\ UNCHANGED locals
         ELSE LET applicationId == Chain(rep.value, "application", "id")
              IN  /\ locals' = [ locals EXCEPT ![r].applicationId = applicationId ]
                  /\ Call(r, "register", getFusionAuthClient(Local(r, "tenantId")),
                          registrationRequest(Local(r, "user"), applicationId))
  /\ UNCHANGED << formData, idp >>

\* register settled: redirect, or catch the rejection.
AfterRegister(r) ==
  /\ pc[r] = "register"
  /\ Settled(r)
  /\ LET rep == Last(trace[r])
     IN  IF rep.outcome = "rejected"
         THEN Catch(r, rep.value)
         ELSE Return(r, redirect(Local(r, "orgName")))
  /\ UNCHANGED << formData, locals, idp >>

\* ---- the identity provider ---------------------------------------------

Fulfil(r, op, body) ==
  trace' = [ trace EXCEPT ![r] =
    Append(@, ReplyEvent(op, "fulfilled", [ statusCode |-> 200, response |-> body ])) ]

\* A 2xx response without the expected entity, or an error response.
Fail(r, op) ==
  \/ Fulfil(r, op, EmptyObject)
  \/ \E e \in Errors :
       trace' = [ trace EXCEPT ![r] = Append(@, ReplyEvent(op, "rejected", e)) ]

IdpCreateTenant(r) ==
  /\ Pending(r, "createTenant")
  /\ LET req == Last(trace[r]).request
         t == [ id |-> "t" \o ToString(r), name |-> req.tenant.name ]
     IN  \/ /\ Fulfil(r, "createTenant", [ tenant |-> t ])
            /\ idp' = [ idp EXCEPT !.tenants = @ \cup { t } ]
         \/ Fail(r, "createTenant") /\ UNCHANGED idp
  /\ UNCHANGED << pc, formData, locals, result >>

IdpCreateAPIKey(r) ==
  /\ Pending(r, "createAPIKey")
  /\ LET req == Last(trace[r]).request
         k == [ key |-> "k" \o ToString(r), tenantId |-> req.apiKey.tenantId ]
     IN  \/ /\ Fulfil(r, "createAPIKey", [ apiKey |-> k ])
            /\ idp' = [ idp EXCEPT !.apiKeys = @ \cup { k } ]
         \/ Fail(r, "createAPIKey") /\ UNCHANGED idp
  /\ UNCHANGED << pc, formData, locals, result >>

IdpCreateApplication(r) ==
  /\ Pending(r, "createApplication")
  /\ LET call == Last(trace[r])
         a == [ id |-> "a" \o ToString(r), name |-> call.request.application.name,
                roles |-> call.request.application.roles,
                createdWith |-> call.client.apiKey ]
     IN  \/ /\ Fulfil(r, "createApplication", [ application |-> a ])
            /\ idp' = [ idp EXCEPT !.applications = @ \cup { a } ]
         \/ Fail(r, "createApplication") /\ UNCHANGED idp
  /\ UNCHANGED << pc, formData, locals, result >>

IdpRegister(r) ==
  /\ Pending(r, "register")
  /\ LET call == Last(trace[r])
         u == [ id |-> "u" \o ToString(r), user |-> call.request.user,
                applicationId |-> call.request.registration.applicationId,
                tenantId |-> call.client.tenantId ]
     IN  \/ /\ Fulfil(r, "register", [ user |-> u ])
            /\ idp' = [ idp EXCEPT !.users = @ \cup { u } ]
         \/ Fail(r, "register") /\ UNCHANGED idp
  /\ UNCHANGED << pc, formData, locals, result >>

Next ==
  \E r \in Req :
    \/ Receive(r)
    \/ Start(r)
    \/ AfterCreateTenant(r)
    \/ AfterCreateAPIKey(r)
    \/ AfterCreateApplication(r)
    \/ AfterRegister(r)
    \/ IdpCreateTenant(r)
    \/ IdpCreateAPIKey(r)
    \/ IdpCreateApplication(r)
    \/ IdpRegister(r)

Spec == Init /\ [][Next]_vars

\* ---- vocabulary of the properties ----------------------------------------

Steps == << "createTenant", "createAPIKey", "createApplication", "register" >>

ProviderOps == { Steps[i] : i \in 1..Len(Steps) }

Calls(r) == SelectSeq(trace[r], LAMBDA e : e.type = "call")

Replies(r) == SelectSeq(trace[r], LAMBDA e : e.type = "reply")

\* The calls of request r that are issued and not settled.
InFlight(r) == Len(Calls(r)) - Len(Replies(r))

\* What the provider returned to request r for step k, if it has.
HasReply(r, k) == Len(Replies(r)) >= k

Reply(r, k) == Replies(r)[k]

RequiredOutput(k) ==
  CASE k = 1 -> << "tenant", "id" >>
    [] k = 2 -> << "apiKey", "key" >>
    [] k = 3 -> << "application", "id" >>

\* Step k of request r returned 2xx without the field the workflow needs.
Lacks(r, k) ==
  /\ HasReply(r, k)
  /\ Reply(r, k).outcome = "fulfilled"
  /\ ~Truthy(Chain(Reply(r, k).value, RequiredOutput(k)[1], RequiredOutput(k)[2]))

Rejected(r, k) == HasReply(r, k) /\ Reply(r, k).outcome = "rejected"

\* Step k of request r succeeded (for register: settled without rejection).
Succeeded(r, k) ==
  /\ HasReply(r, k)
  /\ Reply(r, k).outcome = "fulfilled"
  /\ k <= 3 => ~Lacks(r, k)

\* Step k of request r failed, by an error or by a response lacking the field.
Failed(r, k) == Rejected(r, k) \/ (k <= 3 /\ Lacks(r, k))

\* The submitted `organization` value of request r.
Organization(r) == Prop(formData[r], "organization")

Done(r) == pc[r] = "done"

\* ---- properties -----------------------------------------------------------

\* C1: a request whose form has no `organization` field, or an empty one,
\* never issues a provider call, and ends with the validation error thrown.
C1_ValidationBeforeAnyCall ==
  \A r \in Req :
    ~Truthy(Organization(r)) =>
      /\ trace[r] = << >>
      /\ pc[r] \in { "idle", "formData", "done" }
      /\ Done(r) => result[r] = [ kind |-> "thrown", error |-> InvariantError ]

\* One request failed validation on a missing field, another on an empty one.
C1_Witness ==
  \E r1, r2 \in Req :
    /\ Done(r1) /\ Done(r2)
    /\ "organization" \notin DOMAIN formData[r1]
    /\ Organization(r2) = ""
    /\ result[r1].kind = "thrown" /\ result[r2].kind = "thrown"

\* C2: within a request the calls are createTenant, createAPIKey,
\* createApplication, register in that order; a call is issued only after
\* the previous one was settled and returned its required output; at most
\* one call of a request is in flight.
C2_StrictSequence ==
  \A r \in Req :
    /\ Len(Calls(r)) <= Len(Steps)
    /\ \A k \in 1..Len(Calls(r)) : Calls(r)[k].op = Steps[k]
    /\ \A i \in 1..Len(trace[r]) :
         /\ trace[r][i].type = (IF i % 2 = 1 THEN "call" ELSE "reply")
         /\ i % 2 = 0 => trace[r][i].op = trace[r][i - 1].op
    /\ \A k \in 2..Len(Calls(r)) : Succeeded(r, k - 1)
    /\ InFlight(r) \in { 0, 1 }

\* A request has its fourth call in flight after three settled ones.
C2_Witness ==
  \E r \in Req : Len(Calls(r)) = 4 /\ InFlight(r) = 1 /\ Len(Replies(r)) = 3

\* C3: the createAPIKey call of a request carries the tenant id that
\* createTenant returned to that request, and is the call issued once that
\* id was returned.
C3_ApiKeyForReturnedTenant ==
  \A r \in Req :
    /\ \A k \in 1..Len(Calls(r)) :
         Calls(r)[k].op = "createAPIKey" =>
           /\ HasReply(r, 1)
           /\ Reply(r, 1).op = "createTenant"
           /\ Calls(r)[k].request.apiKey.tenantId =
                Chain(Reply(r, 1).value, "tenant", "id")
    /\ (Succeeded(r, 1) /\ pc[r] # "createTenant") =>
         /\ Len(Calls(r)) >= 2
         /\ Calls(r)[2].op = "createAPIKey"

\* createTenant returned id "t1" and the key request was issued with it.
C3_Witness ==
  \E r \in Req :
    /\ Len(Calls(r)) >= 2
    /\ Chain(Reply(r, 1).value, "tenant", "id") = "t1"
    /\ Calls(r)[2].request.apiKey.tenantId = "t1"

\* C4: when step k of 1..3 fails in a request, by an error response or by a
\* response lacking the id/key, the failed call is the last event of that
\* request: nothing is issued after it.
C4_FirstFailureAborts ==
  \A r \in Req : \A k \in 1..3 :
    Failed(r, k) =>
      /\ Len(trace[r]) = 2 * k
      /\ Len(Calls(r)) = k

\* One request ended on a createTenant response without id, another on a
\* rejected createAPIKey.
C4_Witness ==
  \E r1, r2 \in Req :
    /\ Done(r1) /\ Lacks(r1, 1)
    /\ Done(r2) /\ Rejected(r2, 2)

\* C5: when steps 1-3 succeeded and register was rejected with status s and
\* body b, the action returns a JSON response of status s and body
\* { error: { message: b } } and throws nothing.
C5_RegisterFailureIsJson ==
  \A r \in Req :
    (Done(r) /\ Succeeded(r, 1) /\ Succeeded(r, 2) /\ Succeeded(r, 3)
       /\ Rejected(r, 4)) =>
      result[r] =
        [ kind |-> "json",
          body |-> [ error |-> [ message |-> Reply(r, 4).value.response ] ],
          status |-> Reply(r, 4).value.statusCode ]

\* register was rejected with 400 "email already exists" and the action
\* returned exactly that.
C5_Witness ==
  \E r \in Req :
    /\ Done(r) /\ Rejected(r, 4)
    /\ Reply(r, 4).value =
         [ statusCode |-> 400, response |-> "email already exists" ]
    /\ result[r].kind = "json"
    /\ result[r].status = 400
    /\ result[r].body.error.message = "email already exists"

\* C6: when all four calls of a request succeeded, the action returns a
\* redirect to "<organization>.saasbp.io/signin", the organization being the
\* submitted value ("acme-corp" gives "acme-corp.saasbp.io/signin").
C6_RedirectTarget ==
  \A r \in Req :
    (Done(r) /\ \A k \in 1..4 : Succeeded(r, k)) =>
      /\ result[r].kind = "redirect"
      /\ result[r].location = Organization(r) \o ".saasbp.io/signin"
      /\ Organization(r) = "acme-corp" =>
           result[r].location = "acme-corp.saasbp.io/signin"

\* The request for "acme-corp" was redirected.
C6_Witness ==
  \E r \in Req :
    /\ Done(r) /\ \A k \in 1..4 : Succeeded(r, k)
    /\ Organization(r) = "acme-corp"
    /\ result[r].kind = "redirect"
    /\ result[r].location = "acme-corp.saasbp.io/signin"

\* C7: a failure of step 1, 2 or 3 ends the action with a thrown error; a
\* structured JSON error is the result only when register was rejected.
C7_OnlyRegisterIsStructured ==
  \A r \in Req :
    /\ (Done(r) /\ \E k \in 1..3 : Failed(r, k)) => result[r].kind = "thrown"
    /\ result[r].kind = "json" => Rejected(r, 4)

\* One request threw on a failed createApplication, another returned a
\* structured error for register.
C7_Witness ==
  \E r1, r2 \in Req :
    /\ Done(r1) /\ Failed(r1, 3) /\ result[r1].kind = "thrown"
    /\ Done(r2) /\ Rejected(r2, 4) /\ result[r2].kind = "json"

StepError(k) ==
  CASE k = 1 -> TenantError
    [] k = 2 -> ApiKeyError
    [] k = 3 -> ApplicationError

\* C8: a 2xx response of step 1, 2 or 3 that lacks the tenant id, the key or
\* the application id makes the action throw that step's error; such a
\* request never ends in a redirect.
C8_MissingFieldIsFailure ==
  \A r \in Req : \A k \in 1..3 :
    Lacks(r, k) =>
      /\ result[r].kind # "redirect"
      /\ pc[r] \in { Steps[k], "done" }
      /\ Done(r) => result[r] = [ kind |-> "thrown", error |-> StepError(k) ]

\* One request ended on a createApplication response without id, another
\* on a createAPIKey response without key.
C8_Witness ==
  \E r1, r2 \in Req :
    /\ Done(r1) /\ Lacks(r1, 3) /\ result[r1].kind = "thrown"
    /\ Done(r2) /\ Lacks(r2, 2) /\ result[r2].kind = "thrown"

\* The tenant and the key the provider returned to request r are held by it.
TenantAndKeyRemain(r) ==
  /\ Reply(r, 1).value.response.tenant \in idp.tenants
  /\ Reply(r, 2).value.response.apiKey \in idp.apiKeys

\* C9: the workflow issues no call other than its four creation calls (no
\* delete-tenant, no revoke-key), and when step 3 or 4 failed after steps
\* 1-2 succeeded the tenant and the key are still in the provider.
C9_NoCompensation ==
  \A r \in Req :
    /\ \A i \in 1..Len(trace[r]) : trace[r][i].op \in ProviderOps
    /\ (Succeeded(r, 1) /\ Succeeded(r, 2) /\ (Failed(r, 3) \/ Failed(r, 4))) =>
         TenantAndKeyRemain(r)

\* One request ended on a failed createApplication, another on a rejected
\* register; both left their tenant and key behind.
C9_Witness ==
  \E r1, r2 \in Req :
    /\ Done(r1) /\ Succeeded(r1, 2) /\ Failed(r1, 3) /\ TenantAndKeyRemain(r1)
    /\ Done(r2) /\ Succeeded(r2, 3) /\ Failed(r2, 4) /\ TenantAndKeyRemain(r2)

RoleFlags(roles) ==
  { [ name |-> roles[i].name, isDefault |-> roles[i].isDefault ] :
      i \in 1..Len(roles) }

\* C10: every createApplication call carries an application with exactly
\* two roles, admin (isDefault false) and member (isDefault true); the
\* request names no role outside these two.
C10_TwoFixedRoles ==
  \A r \in Req : \A k \in 1..Len(Calls(r)) :
    Calls(r)[k].op = "createApplication" =>
      LET req == Calls(r)[k].request
      IN  /\ Len(req.application.roles) = 2
          /\ RoleFlags(req.application.roles) =
               { [ name |-> "admin", isDefault |-> FALSE ],
                 [ name |-> "member", isDefault |-> TRUE ] }
          /\ RoleFlags(<< req.role >>) \subseteq RoleFlags(req.application.roles)

\* Two requests with different organization names both issued
\* createApplication.
C10_Witness ==
  \E r1, r2 \in Req :
    /\ Len(Calls(r1)) >= 3 /\ Len(Calls(r2)) >= 3
    /\ Calls(r1)[3].request.application.name = "acme-corp App"
    /\ Calls(r2)[3].request.application.name = "b c App"

\* The tenant id, key and application id the provider returned to request r.
ReturnedTenantId(r) == Chain(Reply(r, 1).value, "tenant", "id")

ReturnedKey(r) == Chain(Reply(r, 2).value, "apiKey", "key")

ReturnedApplicationId(r) == Chain(Reply(r, 3).value, "application", "id")

\* C11: createTenant and createAPIKey go out with the default client;
\* createApplication with a client built on the key createAPIKey returned to
\* this request (not the configured key, no tenant set); register with the
\* configured key on a client scoped to the new tenant, never with the
\* scoped key.
C11_CredentialScoping ==
  \A r \in Req : \A k \in 1..Len(Calls(r)) :
    LET call == Calls(r)[k]
    IN  /\ call.op \in { "createTenant", "createAPIKey" } =>
             /\ call.client.apiKey = DefaultApiKey
             /\ call.client.tenantId = DefaultTenantId
        /\ call.op = "createApplication" =>
             /\ call.client.apiKey = ReturnedKey(r)
             /\ call.client.apiKey # DefaultApiKey
             /\ call.client.tenantId = Undefined
        /\ call.op = "register" =>
             /\ call.client.tenantId = ReturnedTenantId(r)
             /\ call.client.tenantId # DefaultTenantId
             /\ call.client.apiKey # ReturnedKey(r)
             /\ call.client.apiKey = DefaultApiKey

\* A request issued all four calls; the third went out with key "k1", the
\* fourth with tenant "t1".
C11_Witness ==
  \E r \in Req :
    /\ Len(Calls(r)) = 4
    /\ Calls(r)[3].client.apiKey = "k1"
    /\ Calls(r)[4].client.tenantId = "t1"
    /\ Calls(r)[4].client.apiKey = DefaultApiKey

\* C12: the register call of a request goes to the tenant createTenant
\* returned to it, names the application createApplication returned to it,
\* and its user payload has exactly the submitted form fields with their
\* submitted values.
C12_RegisterPayload ==
  \A r \in Req : \A k \in 1..Len(Calls(r)) :
    Calls(r)[k].op = "register" =>
      LET call == Calls(r)[k]
      IN  /\ Succeeded(r, 1) /\ Succeeded(r, 3)
          /\ call.client.tenantId = ReturnedTenantId(r)
          /\ call.request.registration.applicationId = ReturnedApplicationId(r)
          /\ DOMAIN call.request.user = DOMAIN formData[r]
          /\ \A f \in DOMAIN formData[r] : call.request.user[f] = formData[r][f]

\* The form with the additional field `plan` reached register unchanged.
C12_Witness ==
  \E r \in Req :
    /\ Len(Calls(r)) = 4
    /\ "plan" \in DOMAIN formData[r]
    /\ Calls(r)[4].request.user.plan = "pro"
    /\ Calls(r)[4].request.user.organization = "b c"
    /\ Calls(r)[4].request.registration.applicationId = ReturnedApplicationId(r)

\* C14: under every interleaving, the tenant id, the scoped key and the
\* application id a request passes to its later calls are the ones returned
\* to that request, and never one returned to another request.
C14_RequestIsolation ==
  \A r \in Req : \A k \in 1..Len(Calls(r)) :
    LET call == Calls(r)[k]
        others == Req \ { r }
    IN  /\ call.op = "createAPIKey" =>
             /\ call.request.apiKey.tenantId = ReturnedTenantId(r)
             /\ \A o \in others : Succeeded(o, 1) =>
                  call.request.apiKey.tenantId # ReturnedTenantId(o)
        /\ call.op = "createApplication" =>
             /\ call.client.apiKey = ReturnedKey(r)
             /\ \A o \in others : Succeeded(o, 2) =>
                  call.client.apiKey # ReturnedKey(o)
        /\ call.op = "register" =>
             /\ call.client.tenantId = ReturnedTenantId(r)
             /\ call.request.registration.applicationId = ReturnedApplicationId(r)
             /\ \A o \in others :
                  /\ Succeeded(o, 1) => call.client.tenantId # ReturnedTenantId(o)
                  /\ Succeeded(o, 3) =>
                       call.request.registration.applicationId # ReturnedApplicationId(o)

\* Two requests run at the same time, each with its register call in flight.
C14_Witness ==
  \E r1, r2 \in Req :
    /\ r1 # r2
    /\ pc[r1] = "register" /\ InFlight(r1) = 1
    /\ pc[r2] = "register" /\ InFlight(r2) = 1
    /\ ReturnedTenantId(r1) # ReturnedTenantId(r2)

\* The step of `action` that request r takes next, whichever it is.
Resume(r) ==
  \/ Start(r)
  \/ AfterCreateTenant(r)
  \/ AfterCreateAPIKey(r)
  \/ AfterCreateApplication(r)
  \/ AfterRegister(r)

\* Request r waits for nothing but its own form or its own pending call.
Runnable(r) == pc[r] = "formData" \/ (pc[r] \in ProviderOps /\ Settled(r))

\* The tenants the provider holds under a name.
TenantsNamed(n) == { t \in idp.tenants : t.name = n }

\* C13: the workflow does not coordinate requests.  A request whose form is
\* read or whose call has settled can always take its next step, whatever
\* the other requests and the provider hold; a valid request always issues
\* createTenant for its name, also when a tenant of that name exists; and a
\* request ends without a redirect only on its own validation failure or on
\* a failure of one of its own calls.
C13_NoCoordination ==
  \A r \in Req :
    /\ Runnable(r) => ENABLED Resume(r)
    /\ (Truthy(Organization(r)) /\ pc[r] \notin { "idle", "formData" }) =>
         /\ Len(Calls(r)) >= 1
         /\ Calls(r)[1].request.tenant.name = Organization(r)
    /\ (Done(r) /\ result[r].kind # "redirect") =>
         \/ ~Truthy(Organization(r))
         \/ \E k \in 1..4 : Failed(r, k)

\* Two requests for the same organization name were both redirected and the
\* provider holds two tenants of that name.
C13_Witness ==
  \E r1, r2 \in Req :
    /\ r1 # r2
    /\ Organization(r1) = Organization(r2)
    /\ Done(r1) /\ result[r1].kind = "redirect"
    /\ Done(r2) /\ result[r2].kind = "redirect"
    /\ Cardinality(TenantsNamed(Organization(r1))) = 2

\* How often request r has invoked the provider operation op.
Invocations(r, op) == Cardinality({ k \in 1..Len(Calls(r)) : Calls(r)[k].op = op })

\* C15: a request invokes each of createTenant, createAPIKey,
\* createApplication and register at most once, so at most four calls in
\* all; a call that failed or came back empty is the request's last call.
C15_NoRetries ==
  \A r \in Req :
    /\ \A op \in ProviderOps : Invocations(r, op) <= 1
    /\ \A k \in 1..Len(Calls(r)) : Calls(r)[k].op \in ProviderOps
    /\ Len(Calls(r)) <= 4
    /\ \A k \in 1..4 : Failed(r, k) =>
         /\ Len(Calls(r)) = k
         /\ Invocations(r, Steps[k]) = 1

\* One request ended after an empty createAPIKey response with two calls,
\* another after a rejected register with four.
C15_Witness ==
  \E r1, r2 \in Req :
    /\ Done(r1) /\ Lacks(r1, 2) /\ Len(Calls(r1)) = 2
    /\ Done(r2) /\ Rejected(r2, 4) /\ Len(Calls(r2)) = 4

\* C16: within a request the tenant name, the name in the API key
\* description, the prefix of the application name and the subdomain of the
\* redirect are all the submitted `organization` value as submitted; a raw
\* value such as "b c" is not re-sanitized.
C16_RawOrganizationEverywhere ==
  \A r \in Req :
    /\ \A k \in 1..Len(Calls(r)) :
         LET call == Calls(r)[k]
         IN  /\ call.op = "createTenant" =>
                  call.request.tenant.name = Organization(r)
             /\ call.op = "createAPIKey" =>
                  call.request.apiKey.metaData.attributes.description =
                    "API key for " \o Organization(r)
             /\ call.op = "createApplication" =>
                  call.request.application.name = Organization(r) \o " App"
    /\ result[r].kind = "redirect" =>
         result[r].location = Organization(r) \o ".saasbp.io/signin"

\* The raw value "b c" went through all four steps and into the redirect.
C16_Witness ==
  \E r \in Req :
    /\ Done(r) /\ result[r].kind = "redirect"
    /\ Organization(r) = "b c"
    /\ Calls(r)[1].request.tenant.name = "b c"
    /\ Calls(r)[2].request.apiKey.metaData.attributes.description = "API key for b c"
    /\ Calls(r)[3].request.application.name = "b c App"
    /\ result[r].location = "b c.saasbp.io/signin"

\* The provider settles the pending call of request r.
IdpSettle(r) ==
  \/ IdpCreateTenant(r)
  \/ IdpCreateAPIKey(r)
  \/ IdpCreateApplication(r)
  \/ IdpRegister(r)

\* Every provider call eventually returns or fails, and a continuation that
\* can run is eventually run by the event loop.  Nothing obliges a form to
\* be submitted.
FairSpec ==
  /\ Spec
  /\ \A r \in Req : WF_vars(Resume(r)) /\ WF_vars(IdpSettle(r))

Outcomes == { "redirect", "json", "thrown" }

\* Every request is either not submitted yet or has ended.
Quiescent == \A r \in Req : pc[r] \in { "idle", "done" }

\* C17: under FairSpec every submitted request eventually ends: a submitted
\* request never goes back to idle and an ended one stays ended with its
\* outcome, and from some point on every request is unsubmitted or ended.
\* A request has ended exactly when it has one outcome out of redirect,
\* JSON error response and thrown error; a redirect is the outcome only if
\* all four provider calls of the request succeeded.
C17_EveryRequestEnds ==
  /\ <>[]Quiescent
  /\ [](\A r \in Req :
         /\ Done(r) <=> result[r].kind \in Outcomes
         /\ result[r].kind = "redirect" => \A k \in 1..4 : Succeeded(r, k))
  /\ [][\A r \in Req :
         /\ pc[r] # "idle" => pc'[r] # "idle"
         /\ Done(r) => (Done(r)' /\ result'[r] = result[r])]_vars

\* All requests were submitted and ended, with a redirect, a JSON error or
\* a thrown error among the outcomes.
C17_Witness ==
  /\ \A r \in Req : Done(r)
  /\ \E r1, r2 \in Req :
       /\ result[r1].kind = "redirect"
       /\ result[r2].kind \in { "json", "thrown" }

====
